---- MODULE Spec2Model ----
(***************************************************************************)
(* Model of the hotel-booking backend: the token verifier                  *)
(* (src/src/middleware/auth.ts), the user routes register / verify-email / *)
(* resend-otp and the sendEmail helper (src/unnamed/part_000), and the     *)
(* booking routes payment-intent / bookings (src/src/routes/hotels.ts).    *)
(*                                                                         *)
(* Every handler is an async function: it runs synchronously up to an      *)
(* await (a database call, a payment-provider call, the mail transport)    *)
(* and other requests may run in between.  One action models one such      *)
(* synchronous stretch together with the awaited call that ends it.        *)
(***************************************************************************)
EXTENDS Integers, Sequences, FiniteSets, TLC

\* users, hotels: the stored documents; intents: the provider's records;
\* tokens: the user ids a token was signed for; now: the clock (ms);
\* reqs: the requests being handled; issued: what was done with the codes
\* of each email (history, read by no handler)
VARIABLES users, now, tokens, hotels, intents, reqs, issued

vars == <<users, now, tokens, hotels, intents, reqs, issued>>

----------------------------------------------------------------------------
(* Bounds of the model *)

\* number of requests that can be in flight at the same time
MaxInflight == 2
\* the clock advances this many times at most
MaxTicks == 2
\* payment intents the provider mints at most
MaxIntents == 1
\* booking records appended at most, over all hotels
MaxBookings == 1
\* booking records appended at most when confirmations repeat or overlap
MaxConfirmed == 2

Procs == 1..MaxInflight

----------------------------------------------------------------------------
(* JavaScript values: a type tag and a sequence of integers.  A string is   *)
(* the sequence of its decimal digits (the only strings compared by the     *)
(* code are one-time codes), a number <<n>>, a date <<ms>>, a boolean <<1>>  *)
(* or <<0>>.                                                                *)

Undefined == [t |-> "undefined", v |-> <<>>]
Str(s) == [t |-> "string", v |-> s]
Num(n) == [t |-> "number", v |-> <<n>>]
Bool(b) == [t |-> "boolean", v |-> IF b THEN <<1>> ELSE <<0>>]
DateOf(ms) == [t |-> "date", v |-> <<ms>>]

\* a === b
StrictEq(a, b) == a.t = b.t /\ a.v = b.v

\* !!a
Truthy(a) ==
    CASE a.t = "undefined" -> FALSE
      [] a.t = "string" -> a.v # <<>>
      [] a.t = "number" -> a.v # <<0>>
      [] a.t = "boolean" -> a.v = <<1>>
      [] OTHER -> TRUE

\* Number.prototype.toString() of a non-negative integer: its decimal digits
RECURSIVE NumToString(_)
NumToString(n) ==
    IF n < 10 THEN <<n>> ELSE Append(NumToString(n \div 10), n % 10)

\* crypto.randomInt(min, max): min <= n < max
RandomInt(min, max) == min..(max - 1)

\* the values crypto.randomInt(100000, 999999) can return
GeneratedOtps == RandomInt(100000, 999999)

\* 10 * 60 * 1000 milliseconds
OtpWindowMs == 10 * 60 * 1000

\* a < b on two dates
DateBefore(a, b) == a.v[1] < b.v[1]

\* faulty variant: the comparison reversed
OtpExpiredMutReversed(expiry, clock) == DateBefore(DateOf(clock), expiry)
\* user.otpExpiry < new Date()
OtpExpired(expiry, clock) == DateBefore(expiry, DateOf(clock))

----------------------------------------------------------------------------
(* Input samples *)

Emails == {"a@x", "b@x"}
\* user.id of the document created for an email
UserIdOf(e) == IF e = "a@x" THEN "uA" ELSE "uB"
UserIds == {UserIdOf(e) : e \in Emails}

\* candidate outcomes of the random draw; only those in GeneratedOtps occur
CodeSample == {100000, 999998, 999999}
\* the clock advances in steps of one window
TickMs == OtpWindowMs

\* the hotels in storage when the service starts, and their nightly rates
HotelIds == {"h1", "h2"}
PricePerNight(h) == IF h = "h1" THEN 100 ELSE 250

----------------------------------------------------------------------------
(* Stored documents and Mongoose's save *)

NoUser == [exists |-> FALSE]
NoDoc == NoUser

UserPaths == {"isVerified", "otp", "otpExpiry"}

\* Document.save() of a loaded document sends only the paths whose value was
\* changed by an assignment ($set / $unset of the modified paths)
ModifiedPaths(orig, cur) == {p \in UserPaths : ~StrictEq(orig[p], cur[p])}
\* faulty variant: every path of the loaded document is written back
DeltaMutAllPaths(orig, cur) == [p \in UserPaths |-> cur[p]]
Delta(orig, cur) == [p \in ModifiedPaths(orig, cur) |-> cur[p]]
ApplyDelta(doc, delta) ==
    [p \in DOMAIN doc |-> IF p \in DOMAIN delta THEN delta[p] ELSE doc[p]]

\* { ...body, ...over }
Spread(body, over) ==
    [p \in DOMAIN body \cup DOMAIN over |->
        IF p \in DOMAIN over THEN over[p] ELSE body[p]]

\* new User({...req.body, otp, otpExpiry, isVerified: false})
NewUser(e, body, code, clock) ==
    LET fields == Spread(body, [otp |-> Str(NumToString(code)),
                                otpExpiry |-> DateOf(clock + OtpWindowMs),
                                isVerified |-> Bool(FALSE)])
    IN [exists |-> TRUE, id |-> UserIdOf(e), isVerified |-> fields.isVerified,
        otp |-> fields.otp, otpExpiry |-> fields.otpExpiry]

----------------------------------------------------------------------------
(* Requests *)

Idle == [op |-> "idle", pc |-> "idle"]

\* handed: the code last given to sendEmail for the email; replaced: the
\* stored code that the last save of a resend-otp request wrote over
NoHistory == [handed |-> Undefined, replaced |-> Undefined]
Free(p) == reqs[p].pc \in {"idle", "done"}

Resp(status, message) == [status |-> status, message |-> message]
NoResp == Resp(0, "")

\* the request has been answered: what it loaded is dropped
Done(r, resp) ==
    LET locals == [doc |-> NoDoc, delta |-> <<>>, pi |-> <<>>,
                   booking |-> <<>>, code |-> Undefined]
    IN [f \in DOMAIN r |->
           CASE f = "pc" -> "done"
             [] f = "resp" -> resp
             [] f \in DOMAIN locals -> locals[f]
             [] OTHER -> r[f]]

Init ==
    /\ users = [e \in Emails |-> NoUser]
    /\ now = 0
    /\ tokens = {}
    /\ hotels = [h \in HotelIds |->
                    [exists |-> TRUE, pricePerNight |-> PricePerNight(h),
                     bookings |-> <<>>]]
    /\ intents = <<>>
    /\ reqs = [p \in Procs |-> Idle]
    /\ issued = [e \in Emails |-> NoHistory]

----------------------------------------------------------------------------
(* sendEmail: transporter.sendMail either acknowledges or rejects; a        *)
(* rejection is thrown to the caller.                                       *)

MailOutcomes == {"sent", "failed"}

----------------------------------------------------------------------------
(* POST /register *)

\* what a register body may carry besides the validated fields
RegisterBodies == {<<>>, [isVerified |-> Bool(TRUE)]}

\* User.findOne({email}); the duplicate check; the code and the document
RegisterFind(p, emailSet, codeSet) ==
    /\ Free(p)
    /\ \E e \in emailSet, body \in RegisterBodies :
          LET r == [op |-> "register", pc |-> "find", email |-> e,
                    resp |-> NoResp, mail |-> "none",
                    code |-> Undefined, doc |-> NoUser]
          IN IF users[e].exists
             THEN reqs' = [reqs EXCEPT ![p] =
                              Done(r, Resp(400, "User already exists"))]
             ELSE \E n \in codeSet \cap GeneratedOtps :
                     reqs' = [reqs EXCEPT ![p] =
                                 [r EXCEPT !.pc = "save",
                                           !.code = Str(NumToString(n)),
                                           !.doc = NewUser(e, body, n, now)]]
    /\ UNCHANGED <<users, now, tokens, hotels, intents, issued>>

\* the user collection holds one document per email: an insert is rejected
\* when a document with that email is stored
InsertRejected(stored) == stored.exists

\* await user.save() of a new document: an insert; a rejection is thrown
\* into the handler's catch.  When it resolves the handler calls sendEmail,
\* which gives the mail with the code to transporter.sendMail before its
\* first await.
RegisterSave(p) ==
    /\ reqs[p].op = "register" /\ reqs[p].pc = "save"
    /\ LET r == reqs[p]
       IN IF InsertRejected(users[r.email])
          THEN /\ reqs' = [reqs EXCEPT ![p] =
                              Done(r, Resp(500, "Something went wrong"))]
               /\ UNCHANGED <<users, issued>>
          ELSE /\ users' = [users EXCEPT ![r.email] = r.doc]
               /\ reqs' = [reqs EXCEPT ![p].pc = "email"]
               /\ issued' = [issued EXCEPT ![r.email].handed = r.code]
    /\ UNCHANGED <<now, tokens, hotels, intents>>

\* transporter.sendMail settles; jwt.sign; the cookie; the response
RegisterEmail(p) ==
    /\ reqs[p].op = "register" /\ reqs[p].pc = "email"
    /\ UNCHANGED issued
    /\ LET r == reqs[p]
       IN \/ /\ tokens' = tokens \cup {r.doc.id}
             /\ reqs' = [reqs EXCEPT ![p] =
                   Done([r EXCEPT !.mail = "sent"],
                        Resp(200, "User registered successfully. Please verify your email."))]
          \/ /\ UNCHANGED tokens
             /\ reqs' = [reqs EXCEPT ![p] =
                   Done([r EXCEPT !.mail = "failed"],
                        Resp(500, "Something went wrong"))]
    /\ UNCHANGED <<users, now, hotels, intents>>

----------------------------------------------------------------------------
(* POST /verify-email *)

\* the code of a verify body: a string or a number
SubmittedOtps(codeSet) ==
    {Str(NumToString(n)) : n \in codeSet} \cup {Num(n) : n \in codeSet}

\* faulty variants of the checks: without the isVerified check, without the
\* comparison of the codes
VerifyFailureMutNoVerifiedCheck(user, otp, clock) ==
    CASE ~user.exists -> "User not found"
      [] ~Truthy(user.otp) \/ ~Truthy(user.otpExpiry) ->
            "OTP not generated for this user"
      [] ~StrictEq(user.otp, otp) -> "Invalid OTP"
      [] OtpExpired(user.otpExpiry, clock) -> "OTP expired"
      [] OTHER -> ""
VerifyFailureMutNoCodeCheck(user, otp, clock) ==
    CASE ~user.exists -> "User not found"
      [] Truthy(user.isVerified) -> "Email already verified"
      [] ~Truthy(user.otp) \/ ~Truthy(user.otpExpiry) ->
            "OTP not generated for this user"
      [] OtpExpired(user.otpExpiry, clock) -> "OTP expired"
      [] OTHER -> ""
\* faulty variant: the expiry tested before the codes are compared
VerifyFailureMutExpiryFirst(user, otp, clock) ==
    CASE ~user.exists -> "User not found"
      [] Truthy(user.isVerified) -> "Email already verified"
      [] ~Truthy(user.otp) \/ ~Truthy(user.otpExpiry) ->
            "OTP not generated for this user"
      [] OtpExpired(user.otpExpiry, clock) -> "OTP expired"
      [] ~StrictEq(user.otp, otp) -> "Invalid OTP"
      [] OTHER -> ""
\* the response of the checks that follow User.findOne, "" when all pass
VerifyFailure(user, otp, clock) ==
    CASE ~user.exists -> "User not found"
      [] Truthy(user.isVerified) -> "Email already verified"
      [] ~Truthy(user.otp) \/ ~Truthy(user.otpExpiry) ->
            "OTP not generated for this user"
      [] ~StrictEq(user.otp, otp) -> "Invalid OTP"
      [] OtpExpired(user.otpExpiry, clock) -> "OTP expired"
      [] OTHER -> ""

\* the assignments user.isVerified = true; user.otp = undefined; ...
VerifiedDoc(user) ==
    [user EXCEPT !.isVerified = Bool(TRUE), !.otp = Undefined,
                 !.otpExpiry = Undefined]

\* User.findOne({email}), the checks and the assignments
VerifyFind(p, emailSet, otpSet) ==
    /\ Free(p)
    /\ \E e \in emailSet, otp \in otpSet :
          LET r == [op |-> "verify", pc |-> "find", email |-> e,
                    resp |-> NoResp, otp |-> otp, delta |-> <<>>]
              user == users[e]
              failure == VerifyFailure(user, otp, now)
          IN IF failure # ""
             THEN reqs' = [reqs EXCEPT ![p] = Done(r, Resp(400, failure))]
             ELSE reqs' = [reqs EXCEPT ![p] =
                     [r EXCEPT !.pc = "save",
                               !.delta = Delta(user, VerifiedDoc(user))]]
    /\ UNCHANGED <<users, now, tokens, hotels, intents, issued>>

\* await user.save(); the response
VerifySave(p) ==
    /\ reqs[p].op = "verify" /\ reqs[p].pc = "save"
    /\ LET r == reqs[p]
       IN /\ users' = [users EXCEPT ![r.email] = ApplyDelta(@, r.delta)]
          /\ reqs' = [reqs EXCEPT ![p] =
                Done(r, Resp(200, "Email verified successfully"))]
    /\ UNCHANGED <<now, tokens, hotels, intents, issued>>

----------------------------------------------------------------------------
(* POST /resend-otp *)

\* body.email absent
NoEmail == ""

\* the assignments user.otp = newOtp; user.otpExpiry = new Date(now + 10 min)
ReissuedDoc(user, code, clock) ==
    [user EXCEPT !.otp = Str(NumToString(code)),
                 !.otpExpiry = DateOf(clock + OtpWindowMs)]

\* the email check, User.findOne({email}), the checks, the new code
ResendFind(p, emailSet, codeSet) ==
    /\ Free(p)
    /\ \E e \in emailSet \cup {NoEmail} :
          LET r == [op |-> "resend", pc |-> "find", email |-> e,
                    resp |-> NoResp, mail |-> "none", code |-> Undefined,
                    delta |-> <<>>]
          IN IF e = NoEmail
             THEN reqs' = [reqs EXCEPT ![p] =
                              Done(r, Resp(400, "Email is required"))]
             ELSE IF ~users[e].exists
             THEN reqs' = [reqs EXCEPT ![p] =
                              Done(r, Resp(400, "User not found"))]
             ELSE IF Truthy(users[e].isVerified)
             THEN reqs' = [reqs EXCEPT ![p] =
                              Done(r, Resp(400, "Email is already verified"))]
             ELSE \E n \in codeSet \cap GeneratedOtps :
                     reqs' = [reqs EXCEPT ![p] =
                        [r EXCEPT !.pc = "save",
                                  !.code = Str(NumToString(n)),
                                  !.delta = Delta(users[e],
                                              ReissuedDoc(users[e], n, now))]]
    /\ UNCHANGED <<users, now, tokens, hotels, intents, issued>>

\* await user.save(); when it resolves the handler calls sendEmail, which
\* gives the mail with the new code to transporter.sendMail before its first
\* await
ResendSave(p) ==
    /\ reqs[p].op = "resend" /\ reqs[p].pc = "save"
    /\ LET r == reqs[p]
       IN /\ users' = [users EXCEPT ![r.email] = ApplyDelta(@, r.delta)]
          /\ reqs' = [reqs EXCEPT ![p].pc = "email"]
          /\ issued' = [issued EXCEPT ![r.email] =
                            [handed |-> r.code,
                             replaced |-> users[r.email].otp]]
    /\ UNCHANGED <<now, tokens, hotels, intents>>

\* transporter.sendMail settles; the response
ResendEmail(p) ==
    /\ reqs[p].op = "resend" /\ reqs[p].pc = "email"
    /\ UNCHANGED issued
    /\ LET r == reqs[p]
       IN \/ reqs' = [reqs EXCEPT ![p] =
                Done([r EXCEPT !.mail = "sent"],
                     Resp(200, "OTP resent successfully"))]
          \/ reqs' = [reqs EXCEPT ![p] =
                Done([r EXCEPT !.mail = "failed"],
                     Resp(500, "Something went wrong"))]
    /\ UNCHANGED <<users, now, tokens, hotels, intents>>

----------------------------------------------------------------------------
(* The clock *)

Tick ==
    /\ now < MaxTicks * TickMs
    /\ now' = now + TickMs
    /\ UNCHANGED <<users, tokens, hotels, intents, reqs, issued>>

----------------------------------------------------------------------------
(* The identity routes on their own: one registrable email, a second email  *)
(* that is looked up but never registered.                                  *)

OtpEmails == {"a@x"}
OtpCodes == CodeSample
\* the codes submitted: each code that can be live as a string, one as a number
OtpSubmitted ==
    SubmittedOtps(OtpCodes \cap GeneratedOtps) \ {Num(999998)}

\* the steps of the identity routes for the requests of the slots procSet
OtpSteps(procSet) ==
    \/ \E p \in procSet : RegisterFind(p, OtpEmails, OtpCodes)
    \/ \E p \in procSet : RegisterSave(p)
    \/ \E p \in procSet : RegisterEmail(p)
    \/ \E p \in procSet : VerifyFind(p, Emails, OtpSubmitted)
    \/ \E p \in procSet : VerifySave(p)
    \/ \E p \in procSet : ResendFind(p, Emails, OtpCodes)
    \/ \E p \in procSet : ResendSave(p)
    \/ \E p \in procSet : ResendEmail(p)
    \/ Tick

\* one request at a time: a request is answered before the next is received
OtpProcs == {1}
NextOtp == OtpSteps(OtpProcs)
SpecOtp == Init /\ [][NextOtp]_vars

\* up to MaxInflight requests in flight, their awaits interleaved
NextOtpRace == OtpSteps(Procs)
SpecOtpRace == Init /\ [][NextOtpRace]_vars

\* the identity routes for one email, one code of register and one of
\* resend-otp, without the clock: up to MaxInflight requests in flight
NextVerifiedRace ==
    \/ \E p \in Procs : RegisterFind(p, OtpEmails, {100000})
    \/ \E p \in Procs : RegisterSave(p)
    \/ \E p \in Procs : RegisterEmail(p)
    \/ \E p \in Procs : VerifyFind(p, OtpEmails, SubmittedOtps({100000}))
    \/ \E p \in Procs : VerifySave(p)
    \/ \E p \in Procs : ResendFind(p, OtpEmails, {999998})
    \/ \E p \in Procs : ResendSave(p)
    \/ \E p \in Procs : ResendEmail(p)

SpecVerifiedRace == Init /\ [][NextVerifiedRace]_vars

----------------------------------------------------------------------------
(* verifyToken (middleware) *)

\* the token jwt.sign({userId}, JWT_SECRET_KEY) returns
JwtOf(u) == IF u = "uA" THEN "jwt:uA" ELSE "jwt:uB"
\* a string that is no token signed with the key
Garbage == "garbage"
\* no value (undefined or the empty string: both falsy)
NoToken == ""

\* req.headers.authorization?.split(' ')[1], the header given as its words
HeaderToken(header) == IF Len(header) >= 2 THEN header[2] ELSE NoToken

\* faulty variant: the header tried first
TokenOfMutHeaderFirst(cookie, header) ==
    IF HeaderToken(header) # NoToken THEN HeaderToken(header) ELSE cookie
\* req.cookies["auth_token"] || req.headers.authorization?.split(' ')[1]
TokenOf(cookie, header) ==
    IF cookie # NoToken THEN cookie ELSE HeaderToken(header)

\* jwt.verify(token, JWT_SECRET_KEY): the userId of a token this service
\* signed, "" when verification throws
JwtVerify(token, signed) ==
    IF \E u \in signed : JwtOf(u) = token
    THEN CHOOSE u \in signed : JwtOf(u) = token
    ELSE ""

\* the middleware: next() with req.userId set, or a 401
VerifyToken(cookie, header, signed) ==
    LET token == TokenOf(cookie, header)
    IN IF token = NoToken
       THEN [ok |-> FALSE, userId |-> "",
             resp |-> Resp(401, "Authentication required")]
       ELSE IF JwtVerify(token, signed) = ""
       THEN [ok |-> FALSE, userId |-> "",
             resp |-> Resp(401, "Malformed token")]
       ELSE [ok |-> TRUE, userId |-> JwtVerify(token, signed),
             resp |-> NoResp]

----------------------------------------------------------------------------
(* The payment provider (Stripe): its intents, indexed by their id *)

IntentIds == 1..MaxIntents

InitialStatus == "requires_payment_method"
Statuses == {"requires_payment_method", "succeeded", "canceled"}

\* stripe.paymentIntents.create({amount, currency, metadata})
NewIntent(amount, hotelId, userId) ==
    [amount |-> amount, currency |-> "gbp",
     metadata |-> [hotelId |-> hotelId, userId |-> userId],
     status |-> InitialStatus]

\* the client completes the payment with the provider
ProviderSucceed(i) ==
    /\ i \in DOMAIN intents
    /\ intents[i].status = InitialStatus
    /\ intents' = [intents EXCEPT ![i].status = "succeeded"]
    /\ UNCHANGED <<users, now, tokens, hotels, reqs, issued>>

\* the payment is abandoned
ProviderCancel(i) ==
    /\ i \in DOMAIN intents
    /\ intents[i].status = InitialStatus
    /\ intents' = [intents EXCEPT ![i].status = "canceled"]
    /\ UNCHANGED <<users, now, tokens, hotels, reqs, issued>>

----------------------------------------------------------------------------
(* Hotel storage *)

\* a hotel document is deleted from storage (no route of these files does it)
RemoveHotel(h) ==
    /\ hotels[h].exists
    /\ hotels' = [hotels EXCEPT ![h].exists = FALSE]
    /\ UNCHANGED <<users, now, tokens, intents, reqs, issued>>

TotalBookings ==
    LET hs == HotelIds
        lens[S \in SUBSET hs] ==
            IF S = {} THEN 0
            ELSE LET h == CHOOSE x \in S : TRUE
                 IN Len(hotels[h].bookings) + lens[S \ {h}]
    IN lens[hs]

\* the requests of kind op at one of the positions pcs
Inflight(op, pcs) == {p \in Procs : reqs[p].op = op /\ reqs[p].pc \in pcs}

\* fewer than n records are stored or about to be appended
BookingsBelow(n) ==
    TotalBookings + Cardinality(Inflight("confirm", {"update"})) < n

----------------------------------------------------------------------------
(* POST /:hotelId/bookings/payment-intent *)

\* hotel.pricePerNight * numberOfNights
TotalCost(pricePerNight, numberOfNights) == pricePerNight * numberOfNights

\* faulty variant: the total passed on as it is
AmountMinorMutUnscaled(totalCost) == totalCost
\* amount: totalCost * 100
AmountMinor(totalCost) == totalCost * 100

\* verifyToken; Hotel.findById(hotelId); totalCost
IntentFind(p, credSet, hotelSet, nightsSet) ==
    /\ Free(p)
    /\ Len(intents) + Cardinality(Inflight("intent", {"create"})) < MaxIntents
    /\ \E cred \in credSet, h \in hotelSet, nights \in nightsSet :
          LET auth == VerifyToken(cred.cookie, cred.header, tokens)
              r == [op |-> "intent", pc |-> "find", resp |-> NoResp,
                    cred |-> cred, userId |-> auth.userId, hotelId |-> h,
                    nights |-> nights, totalCost |-> 0,
                    paymentIntentId |-> 0]
          IN IF ~auth.ok
             THEN reqs' = [reqs EXCEPT ![p] = Done(r, auth.resp)]
             ELSE IF ~hotels[h].exists
             THEN reqs' = [reqs EXCEPT ![p] =
                              Done(r, Resp(400, "Hotel not found"))]
             ELSE reqs' = [reqs EXCEPT ![p] =
                     [r EXCEPT !.pc = "create",
                               !.totalCost =
                                   TotalCost(hotels[h].pricePerNight, nights)]]
    /\ UNCHANGED <<users, now, tokens, hotels, intents, issued>>

\* await stripe.paymentIntents.create(...); the response.  A rejected create
\* is thrown out of the handler, which has no try/catch: nothing is sent.
IntentCreate(p) ==
    /\ reqs[p].op = "intent" /\ reqs[p].pc = "create"
    /\ LET r == reqs[p]
           made == NewIntent(AmountMinor(r.totalCost), r.hotelId, r.userId)
       IN \/ /\ intents' = Append(intents, made)
             /\ reqs' = [reqs EXCEPT ![p] =
                   Done([r EXCEPT !.paymentIntentId = Len(intents) + 1],
                        Resp(200, ""))]
          \/ /\ intents' = Append(intents, made)
             /\ reqs' = [reqs EXCEPT ![p] =
                   Done(r, Resp(500, "Error creating payment intent"))]
          \/ /\ UNCHANGED intents
             /\ reqs' = [reqs EXCEPT ![p].pc = "hung"]
    /\ UNCHANGED <<users, now, tokens, hotels, issued>>

----------------------------------------------------------------------------
(* POST /:hotelId/bookings *)

NotSucceededMessage(status) ==
    IF status = "canceled"
    THEN "payment intent not succeeded. Status: canceled"
    ELSE "payment intent not succeeded. Status: requires_payment_method"

\* the bodies of a booking request: the intent id and, possibly, a userId
BookingBodies(intentIdSet, userIdSet) ==
    {[paymentIntentId |-> i] : i \in intentIdSet}
        \cup {[paymentIntentId |-> i, userId |-> u] :
                 i \in intentIdSet, u \in userIdSet}

\* faulty variant: the body spread last
NewBookingMutBodyLast(body, userId) == Spread([userId |-> userId], body)
\* { ...req.body, userId: req.userId }
NewBooking(body, userId) == Spread(body, [userId |-> userId])

\* faulty variants of the checks: without the status check, without the
\* comparison of the user ids
ConfirmFailureMutNoStatus(pi, hotelId, userId) ==
    IF pi.metadata.hotelId # hotelId \/ pi.metadata.userId # userId
    THEN "payment intent mismatch"
    ELSE ""
ConfirmFailureMutHotelOnly(pi, hotelId, userId) ==
    IF pi.metadata.hotelId # hotelId
    THEN "payment intent mismatch"
    ELSE IF pi.status # "succeeded" THEN NotSucceededMessage(pi.status)
    ELSE ""
\* the checks on the retrieved intent, "" when all pass
ConfirmFailure(pi, hotelId, userId) ==
    IF pi.metadata.hotelId # hotelId \/ pi.metadata.userId # userId
    THEN "payment intent mismatch"
    ELSE IF pi.status # "succeeded" THEN NotSucceededMessage(pi.status)
    ELSE ""

\* verifyToken; await stripe.paymentIntents.retrieve(id), which throws for
\* an id the provider does not know (it never resolves to a falsy value, so
\* the "payment intent not found" answer is not reached); the checks;
\* newBooking
ConfirmRetrieve(p, cap, credSet, hotelSet, bodySet) ==
    /\ Free(p)
    /\ BookingsBelow(cap)
    /\ \E cred \in credSet, h \in hotelSet, body \in bodySet :
          LET auth == VerifyToken(cred.cookie, cred.header, tokens)
              r == [op |-> "confirm", pc |-> "retrieve", resp |-> NoResp,
                    cred |-> cred, userId |-> auth.userId, hotelId |-> h,
                    body |-> body,
                    pi |-> <<>>, booking |-> <<>>, doc |-> NoDoc,
                    appended |-> 0, mail |-> "none"]
              id == body.paymentIntentId
          IN IF ~auth.ok
             THEN reqs' = [reqs EXCEPT ![p] = Done(r, auth.resp)]
             ELSE IF id \notin DOMAIN intents
             THEN reqs' = [reqs EXCEPT ![p] =
                              Done(r, Resp(500, "something went wrong"))]
             ELSE LET pi == intents[id]
                      failure == ConfirmFailure(pi, h, auth.userId)
                      seen == [r EXCEPT !.pi = pi]
                  IN IF failure # ""
                     THEN reqs' = [reqs EXCEPT ![p] =
                                      Done(seen, Resp(400, failure))]
                     ELSE reqs' = [reqs EXCEPT ![p] =
                             [seen EXCEPT !.pc = "update",
                                 !.booking = NewBooking(body, auth.userId)]]
    /\ UNCHANGED <<users, now, tokens, hotels, intents, issued>>

\* faulty variant: the result of the update is not tested
HotelMissingMutNever(doc) == FALSE
\* if (!hotel), on what findOneAndUpdate returned
HotelMissing(doc) == ~doc.exists

\* await Hotel.findOneAndUpdate({_id}, {$push: {bookings: newBooking}}):
\* one atomic update, which returns the document as it was before it, or
\* null (and writes nothing) when no document has the id
ConfirmUpdate(p) ==
    /\ reqs[p].op = "confirm" /\ reqs[p].pc = "update"
    /\ LET r == reqs[p]
           h == r.hotelId
           returned == IF hotels[h].exists THEN hotels[h] ELSE NoDoc
           pushed == IF hotels[h].exists THEN 1 ELSE 0
       IN /\ hotels' = IF hotels[h].exists
                       THEN [hotels EXCEPT ![h].bookings =
                                Append(@, r.booking)]
                       ELSE hotels
          /\ IF HotelMissing(returned)
             THEN reqs' = [reqs EXCEPT ![p] =
                             Done([r EXCEPT !.appended = r.appended + pushed],
                                  Resp(400, "hotel not found"))]
             ELSE reqs' = [reqs EXCEPT ![p] =
                     [r EXCEPT !.pc = "save", !.doc = returned,
                               !.appended = r.appended + pushed]]
    /\ UNCHANGED <<users, now, tokens, intents, issued>>

\* faulty variant: the returned document is written back whole
HotelSaveMutOverwrite(stored, doc) == doc
\* hotel.save() of the returned document, none of whose paths was modified:
\* nothing is written
HotelSave(stored, doc) == stored

\* the response once sendEmail has settled: a rejection is caught by the
\* handler's catch
ConfirmResponse(outcome) ==
    IF outcome = "sent" THEN Resp(200, "")
    ELSE Resp(500, "something went wrong")

\* save() of a document without modified paths looks the document up and
\* rejects (DocumentNotFoundError) when it is no longer stored
HotelSaveRejected(stored) == ~stored.exists

\* await hotel.save().  A rejected save is caught by the handler's catch
\* before sendEmail is called; a resolved one lets the handler go on to
\* sendEmail.
ConfirmSave(p) ==
    /\ reqs[p].op = "confirm" /\ reqs[p].pc = "save"
    /\ LET r == reqs[p]
           h == r.hotelId
       IN /\ hotels' = [hotels EXCEPT ![h] = HotelSave(@, r.doc)]
          /\ IF HotelSaveRejected(hotels[h])
             THEN reqs' = [reqs EXCEPT ![p] =
                     Done(r, Resp(500, "something went wrong"))]
             ELSE reqs' = [reqs EXCEPT ![p].pc = "email"]
    /\ UNCHANGED <<users, now, tokens, intents, issued>>

\* await sendEmail(...); the response.  The hotel is not read again: what
\* storage holds when the transport settles does not matter.
ConfirmEmail(p) ==
    /\ reqs[p].op = "confirm" /\ reqs[p].pc = "email"
    /\ \E outcome \in MailOutcomes :
          reqs' = [reqs EXCEPT ![p] =
                     Done([reqs[p] EXCEPT !.mail = outcome],
                          ConfirmResponse(outcome))]
    /\ UNCHANGED <<users, now, tokens, hotels, intents, issued>>

----------------------------------------------------------------------------
(* The booking routes, with registration and verification of the callers *)

BookCodes == {100000}
\* what a request carries for verifyToken: nothing, the token of the first
\* user in the cookie, the token of the second user in the header, a cookie
\* that is no token next to a header that carries one
Credentials ==
    {[cookie |-> NoToken, header |-> <<>>],
     [cookie |-> JwtOf("uA"), header |-> <<>>],
     [cookie |-> NoToken, header |-> <<"Bearer", JwtOf("uB")>>],
     [cookie |-> Garbage, header |-> <<"Bearer", JwtOf("uA")>>]}
\* the requests are entered one at a time here; the provider and the storage
\* change between the steps of a request
BookProcs == {1}
BookNights == {3}
BookBodies == BookingBodies(IntentIds, {"uB"})
\* the hotel that can disappear from storage
Removable == {"h2"}

Next ==
    \/ \E p \in BookProcs : RegisterFind(p, Emails, BookCodes)
    \/ \E p \in BookProcs : RegisterSave(p)
    \/ \E p \in BookProcs : RegisterEmail(p)
    \/ \E p \in BookProcs : VerifyFind(p, Emails, SubmittedOtps(BookCodes))
    \/ \E p \in BookProcs : VerifySave(p)
    \/ \E p \in BookProcs : IntentFind(p, Credentials, HotelIds, BookNights)
    \/ \E p \in BookProcs : IntentCreate(p)
    \/ \E p \in BookProcs :
          ConfirmRetrieve(p, MaxBookings, Credentials, HotelIds, BookBodies)
    \/ \E p \in BookProcs : ConfirmUpdate(p)
    \/ \E p \in BookProcs : ConfirmSave(p)
    \/ \E p \in BookProcs : ConfirmEmail(p)
    \/ \E i \in IntentIds : ProviderSucceed(i)
    \/ \E i \in IntentIds : ProviderCancel(i)
    \/ \E h \in Removable : RemoveHotel(h)

Spec == Init /\ [][Next]_vars

----------------------------------------------------------------------------
(* Confirmations that repeat or overlap: one registered caller, whose       *)
(* requests for a payment intent come one at a time, and up to MaxInflight  *)
(* bookings requests in flight, their awaits interleaved.                   *)

RepeatEmails == {"a@x"}
RepeatCredentials == {[cookie |-> JwtOf("uA"), header |-> <<>>]}
RepeatBodies == BookingBodies(IntentIds, {})

NextConfirm ==
    \/ \E p \in BookProcs : RegisterFind(p, RepeatEmails, BookCodes)
    \/ \E p \in BookProcs : RegisterSave(p)
    \/ \E p \in BookProcs : RegisterEmail(p)
    \/ \E p \in BookProcs :
          IntentFind(p, RepeatCredentials, HotelIds, BookNights)
    \/ \E p \in BookProcs : IntentCreate(p)
    \/ \E i \in IntentIds : ProviderSucceed(i)
    \/ \E p \in Procs :
          ConfirmRetrieve(p, MaxConfirmed, RepeatCredentials, HotelIds,
                          RepeatBodies)
    \/ \E p \in Procs : ConfirmUpdate(p)
    \/ \E p \in Procs : ConfirmSave(p)
    \/ \E p \in Procs : ConfirmEmail(p)

SpecConfirm == Init /\ [][NextConfirm]_vars

----------------------------------------------------------------------------
(* The payment-intent route for several lengths of stay, with hotels that   *)
(* can disappear from storage.                                              *)

IntentNights == {1, 2, 3, 7}

NextIntent ==
    \/ \E p \in BookProcs : RegisterFind(p, Emails, BookCodes)
    \/ \E p \in BookProcs : RegisterSave(p)
    \/ \E p \in BookProcs : RegisterEmail(p)
    \/ \E p \in BookProcs :
          IntentFind(p, Credentials, HotelIds, IntentNights)
    \/ \E p \in BookProcs : IntentCreate(p)
    \/ \E h \in Removable : RemoveHotel(h)

SpecIntent == Init /\ [][NextIntent]_vars

----------------------------------------------------------------------------
(* verifyToken on the payment-intent route, for every pairing of a cookie   *)
(* and an Authorization header                                              *)

AuthCookies == {NoToken, Garbage} \cup {JwtOf(u) : u \in UserIds}
AuthHeaders ==
    {<<>>, <<"Bearer">>, <<"Bearer", Garbage>>}
        \cup {<<"Bearer", JwtOf(u)>> : u \in UserIds}
AuthCredentials ==
    {[cookie |-> c, header |-> h] : c \in AuthCookies, h \in AuthHeaders}

NextAuth ==
    \/ \E p \in BookProcs : RegisterFind(p, Emails, BookCodes)
    \/ \E p \in BookProcs : RegisterSave(p)
    \/ \E p \in BookProcs : RegisterEmail(p)
    \/ \E p \in BookProcs :
          IntentFind(p, AuthCredentials, {"h1"}, BookNights)
    \/ \E p \in BookProcs : IntentCreate(p)

SpecAuth == Init /\ [][NextAuth]_vars

----------------------------------------------------------------------------
(* Properties: vocabulary *)

\* a step in which slot p takes a new request of kind op
StartsReq(p, op) == Free(p) /\ reqs'[p] # reqs[p] /\ reqs'[p].op = op

\* a step in which the request of kind op in slot p, at position pc, is answered
Answers(p, op, pc) ==
    reqs[p].op = op /\ reqs[p].pc = pc /\ reqs'[p].pc = "done"

\* the identity whose id is u is stored and verified
EmailOfId(u) == CHOOSE e \in Emails : UserIdOf(e) = u
VerifiedId(u) ==
    users[EmailOfId(u)].exists /\ Truthy(users[EmailOfId(u)].isVerified)

\* the booking records of hotel h
Records(h) == {hotels[h].bookings[k] : k \in 1..Len(hotels[h].bookings)}

\* a new confirmBooking request in slot p that passed verifyToken and whose
\* authorization the provider knows
ConfirmOf(p) ==
    /\ StartsReq(p, "confirm")
    /\ reqs'[p].resp.status # 401
    /\ reqs'[p].body.paymentIntentId \in DOMAIN intents

\* the provider's record of the authorization a confirm request names
IntentOf(r) == intents[r.body.paymentIntentId]

\* the authorization's metadata names the request's hotel and caller
ContextMatches(r) ==
    /\ IntentOf(r).metadata.hotelId = r.hotelId
    /\ IntentOf(r).metadata.userId = r.userId

ContextMismatch == Resp(400, "payment intent mismatch")

----------------------------------------------------------------------------
(* C1: every booking record of a hotel was appended by a confirmBooking     *)
(* call that had retrieved a "succeeded" authorization whose metadata named *)
(* that hotel and the caller, and the record's userId is the caller's       *)
(* identity, whatever userId the request body carried.                      *)

\* a step that changes a hotel's bookings is the update of such a call
C1_Appended ==
    \A h \in HotelIds :
        hotels'[h].bookings # hotels[h].bookings =>
            \E p \in Procs :
                LET r == reqs[p]
                IN /\ r.op = "confirm" /\ r.pc = "update" /\ r.hotelId = h
                   /\ r.userId \in tokens
                   /\ r.pi.status = "succeeded"
                   /\ r.pi.metadata = IntentOf(r).metadata
                   /\ ContextMatches(r)
                   /\ hotels'[h].bookings =
                         Append(hotels[h].bookings, reqs'[p].booking)
                   /\ reqs'[p].booking.userId = r.userId
                   /\ reqs'[p].booking.paymentIntentId =
                         r.body.paymentIntentId

\* every stored record names an authorization of its own hotel and user
C1_Records ==
    \A h \in HotelIds : \A b \in Records(h) :
        /\ b.paymentIntentId \in DOMAIN intents
        /\ intents[b.paymentIntentId].metadata =
              [hotelId |-> h, userId |-> b.userId]
        /\ b.userId \in tokens

Theorem_C1 == [][C1_Appended]_vars /\ []C1_Records

\* a booking was committed for the caller although the body named another user
Witness_C1 ==
    \E p \in Procs :
        LET r == reqs[p]
        IN /\ r.op = "confirm" /\ r.pc = "done" /\ r.appended = 1
           /\ "userId" \in DOMAIN r.body
           /\ r.body.userId # r.userId
           /\ \E b \in Records(r.hotelId) :
                 b.userId = r.userId
                    /\ b.paymentIntentId = r.body.paymentIntentId

----------------------------------------------------------------------------
(* C2: a confirmBooking call whose authorization's metadata hotelId or      *)
(* userId differs from the request's hotelId or caller fails with "payment  *)
(* intent mismatch", appends no record to any hotel and sends no email.     *)

C2_Step ==
    \A p \in Procs :
        ConfirmOf(p) /\ ~ContextMatches(reqs'[p]) =>
            /\ reqs'[p].pc = "done"
            /\ reqs'[p].resp = ContextMismatch
            /\ reqs'[p].appended = 0
            /\ reqs'[p].mail = "none"
            /\ hotels' = hotels

Theorem_C2 == [][C2_Step]_vars

\* a paid authorization of the caller for one hotel was refused for another
Witness_C2 ==
    \E p \in Procs :
        LET r == reqs[p]
        IN /\ r.op = "confirm" /\ r.pc = "done"
           /\ r.resp = ContextMismatch
           /\ r.body.paymentIntentId \in DOMAIN intents
           /\ IntentOf(r).status = "succeeded"
           /\ IntentOf(r).metadata.userId = r.userId
           /\ IntentOf(r).metadata.hotelId # r.hotelId

----------------------------------------------------------------------------
(* C3: a confirmBooking call whose authorization the provider reports with  *)
(* a status other than "succeeded" fails with "payment intent not           *)
(* succeeded" and appends no record.                                        *)

\* as claimed: for every such authorization
Claim_C3 ==
    [][\A p \in Procs :
          ConfirmOf(p) /\ IntentOf(reqs'[p]).status # "succeeded" =>
              /\ reqs'[p].pc = "done"
              /\ reqs'[p].resp =
                    Resp(400, NotSucceededMessage(IntentOf(reqs'[p]).status))
              /\ hotels' = hotels]_vars

\* C3 as amended: no record is appended for any such authorization; the
\* failure is "payment intent not succeeded" when the metadata matches the
\* request and "payment intent mismatch" (the earlier check) when it does not
C3_Step ==
    \A p \in Procs :
        ConfirmOf(p) /\ IntentOf(reqs'[p]).status # "succeeded" =>
            /\ reqs'[p].pc = "done"
            /\ reqs'[p].appended = 0
            /\ hotels' = hotels
            /\ reqs'[p].resp =
                  IF ContextMatches(reqs'[p])
                  THEN Resp(400,
                          NotSucceededMessage(IntentOf(reqs'[p]).status))
                  ELSE ContextMismatch

Theorem_C3 == [][C3_Step]_vars

\* the caller's own authorization for this hotel, canceled, was refused
Witness_C3 ==
    \E p \in Procs :
        LET r == reqs[p]
        IN /\ r.op = "confirm" /\ r.pc = "done"
           /\ r.resp = Resp(400, NotSucceededMessage("canceled"))
           /\ r.body.paymentIntentId \in DOMAIN intents
           /\ IntentOf(r).status = "canceled"
           /\ ContextMatches(r)

----------------------------------------------------------------------------
(* C4: a confirmBooking call whose authorization is "succeeded" and matches *)
(* the request appends exactly one record to the hotel's bookings and       *)
(* answers 200 (stated for a hotel that is in storage at update time).      *)

Claim_C4 ==
    [][\A p \in Procs :
          /\ reqs[p].op = "confirm"
          /\ reqs[p].pc \in {"update", "save", "email"}
          /\ reqs[p].pc = "update" => hotels[reqs[p].hotelId].exists
          /\ reqs'[p].pc = "done"
          => /\ reqs'[p].appended = 1
             /\ reqs'[p].resp.status = 200]_vars

----------------------------------------------------------------------------
(* C5: when the record has been appended and the delivery of the            *)
(* confirmation email fails, the call still answers 200.                    *)

Claim_C5 ==
    \A p \in Procs :
        LET r == reqs[p]
        IN r.op = "confirm" /\ r.pc = "done" /\ r.appended = 1
              /\ r.mail = "failed"
           => r.resp.status = 200

----------------------------------------------------------------------------
(* C6: no booking record is appended for a caller whose identity is not     *)
(* verified.                                                                *)

Claim_C6 ==
    [][\A h \in HotelIds :
          hotels'[h].bookings # hotels[h].bookings =>
              \A p \in Procs :
                  reqs[p].op = "confirm" /\ reqs[p].pc = "update"
                     /\ reqs'[p].pc = "save"
                  => VerifiedId(reqs[p].userId)]_vars

----------------------------------------------------------------------------
(* C7: a verify-email request with the code that register or resend-otp     *)
(* handed to the mail transport, while that code is the stored one and the  *)
(* clock is before the expiry, passes the checks; its save stores           *)
(* isVerified = true and answers 200; every verify-email request that       *)
(* looks the identity up once it is verified fails with "Email already      *)
(* verified".                                                               *)

\* the code c is the one last handed to the transport for email e
Handed(e, c) == Truthy(c) /\ StrictEq(issued[e].handed, c)

\* the challenge stored for e is live with code c
LiveChallenge(e, c) ==
    /\ users[e].exists
    /\ ~Truthy(users[e].isVerified)
    /\ StrictEq(users[e].otp, c)
    /\ users[e].otpExpiry.t = "date"

C7_Accepts ==
    \A q \in Procs :
        LET r == reqs'[q]
        IN /\ StartsReq(q, "verify")
           /\ Handed(r.email, r.otp)
           /\ LiveChallenge(r.email, r.otp)
           /\ now < users[r.email].otpExpiry.v[1]
           => r.pc = "save"

C7_Saves ==
    \A q \in Procs :
        Answers(q, "verify", "save") =>
            /\ reqs'[q].resp = Resp(200, "Email verified successfully")
            /\ Truthy(users'[reqs[q].email].isVerified)

C7_Once ==
    \A q \in Procs :
        LET r == reqs'[q]
        IN /\ StartsReq(q, "verify")
           /\ users[r.email].exists
           /\ Truthy(users[r.email].isVerified)
           => /\ r.pc = "done"
              /\ r.resp = Resp(400, "Email already verified")
              /\ users' = users

Theorem_C7 == [][C7_Accepts /\ C7_Saves /\ C7_Once]_vars

\* the handed code was submitted again after the identity was verified
Witness_C7 ==
    \E q \in Procs :
        LET r == reqs[q]
        IN /\ r.op = "verify" /\ r.pc = "done"
           /\ r.resp = Resp(400, "Email already verified")
           /\ Handed(r.email, r.otp)
           /\ Truthy(users[r.email].isVerified)

----------------------------------------------------------------------------
(* C8: an identity with isVerified = true has neither a code nor an expiry  *)
(* stored.                                                                  *)

Claim_C8 ==
    \A e \in Emails :
        users[e].exists /\ Truthy(users[e].isVerified) =>
            /\ StrictEq(users[e].otp, Undefined)
            /\ StrictEq(users[e].otpExpiry, Undefined)

----------------------------------------------------------------------------
(* C9: a verify-email request with the stored code made when the clock is   *)
(* at or after the expiry fails with "OTP expired" and leaves the identity  *)
(* unverified.                                                              *)

\* a new verify-email request in slot q carrying the live code of its email
VerifyWithLiveCode(q) ==
    /\ StartsReq(q, "verify")
    /\ LiveChallenge(reqs'[q].email, reqs'[q].otp)

Expired(q) ==
    /\ reqs'[q].pc = "done"
    /\ reqs'[q].resp = Resp(400, "OTP expired")
    /\ users' = users

\* as claimed: clock >= expiry
Claim_C9 ==
    [][\A q \in Procs :
          /\ VerifyWithLiveCode(q)
          /\ now >= users[reqs'[q].email].otpExpiry.v[1]
          => Expired(q)]_vars

\* C9 as amended: the request fails when the clock is after the expiry; at
\* the expiry instant itself the code is still accepted
C9_Step ==
    \A q \in Procs :
        VerifyWithLiveCode(q) =>
            /\ now > users[reqs'[q].email].otpExpiry.v[1] => Expired(q)
            /\ now = users[reqs'[q].email].otpExpiry.v[1] =>
                  reqs'[q].pc = "save"

Theorem_C9 == [][C9_Step]_vars

\* the handed code was refused as expired and the identity is unverified
Witness_C9 ==
    \E q \in Procs :
        LET r == reqs[q]
        IN /\ r.op = "verify" /\ r.pc = "done"
           /\ r.resp = Resp(400, "OTP expired")
           /\ Handed(r.email, r.otp)
           /\ LiveChallenge(r.email, r.otp)
           /\ now > users[r.email].otpExpiry.v[1]

----------------------------------------------------------------------------
(* C10: once a resend-otp request has saved its new code, a verify-email    *)
(* request with the code stored before that save fails with "Invalid OTP".  *)

\* the last save of a resend-otp request for e replaced the code old
Replaced(e, old) == Truthy(old) /\ StrictEq(issued[e].replaced, old)

\* a new verify-email request in slot q, for an unverified identity, with the
\* code that the resend replaced
VerifyWithOldCode(q) ==
    /\ StartsReq(q, "verify")
    /\ Replaced(reqs'[q].email, reqs'[q].otp)
    /\ users[reqs'[q].email].exists
    /\ ~Truthy(users[reqs'[q].email].isVerified)

Mismatch(q) ==
    /\ reqs'[q].pc = "done"
    /\ reqs'[q].resp = Resp(400, "Invalid OTP")
    /\ users' = users

\* the code that resend handed to the transport for e is the stored one and
\* differs from the code its save replaced
FreshCode(e) ==
    /\ LiveChallenge(e, issued[e].handed)
    /\ ~StrictEq(issued[e].handed, issued[e].replaced)

\* as claimed: for every value of the new code
Claim_C10 ==
    [][\A q \in Procs :
          /\ VerifyWithOldCode(q)
          /\ LiveChallenge(reqs'[q].email, issued[reqs'[q].email].handed)
          => Mismatch(q)]_vars

\* C10 as amended: when the new code differs from the code it replaced
C10_Step ==
    \A q \in Procs :
        VerifyWithOldCode(q) /\ FreshCode(reqs'[q].email) => Mismatch(q)

Theorem_C10 == [][C10_Step]_vars

\* the replaced code was refused while the new code is the stored one
Witness_C10 ==
    \E q \in Procs :
        LET r == reqs[q]
        IN /\ r.op = "verify" /\ r.pc = "done"
           /\ r.resp = Resp(400, "Invalid OTP")
           /\ Replaced(r.email, r.otp)
           /\ FreshCode(r.email)

----------------------------------------------------------------------------
(* C11: no two booking records, of the same hotel or of different hotels,   *)
(* name the same payment intent id.                                         *)

\* the positions of the booking records: hotel and index
RecordSlots ==
    {<<h, k>> : h \in HotelIds, k \in 1..MaxConfirmed} \cap
        {x \in HotelIds \X (1..MaxConfirmed) :
            x[2] <= Len(hotels[x[1]].bookings)}

Claim_C11 ==
    \A x \in RecordSlots, y \in RecordSlots :
        hotels[x[1]].bookings[x[2]].paymentIntentId =
            hotels[y[1]].bookings[y[2]].paymentIntentId
        => x = y

----------------------------------------------------------------------------
(* C12: in every state, every stored identity has both a code and an expiry *)
(* or neither.                                                              *)

Present(value) == ~StrictEq(value, Undefined)

Claim_C12 ==
    \A e \in Emails :
        users[e].exists =>
            (Present(users[e].otp) <=> Present(users[e].otpExpiry))

----------------------------------------------------------------------------
(* C13: a stored identity whose isVerified is true keeps it true in every   *)
(* step, whatever requests are in flight; a resend-otp request that finds   *)
(* the identity verified fails with "Email is already verified"; a register *)
(* request that finds an identity for its email fails with "User already    *)
(* exists"; both leave the stored identities unchanged, and so does the     *)
(* save of a register request whose email has been taken in between.        *)

C13_Terminal ==
    \A e \in Emails :
        users[e].exists /\ Truthy(users[e].isVerified) =>
            users'[e].exists /\ Truthy(users'[e].isVerified)

C13_Resend ==
    \A p \in Procs :
        LET r == reqs'[p]
        IN /\ StartsReq(p, "resend")
           /\ r.email # NoEmail
           /\ users[r.email].exists
           /\ Truthy(users[r.email].isVerified)
           => /\ r.pc = "done"
              /\ r.resp = Resp(400, "Email is already verified")
              /\ users' = users

C13_Register ==
    \A p \in Procs :
        LET r == reqs'[p]
        IN StartsReq(p, "register") /\ users[r.email].exists
           => /\ r.pc = "done"
              /\ r.resp = Resp(400, "User already exists")
              /\ users' = users

C13_Insert ==
    \A p \in Procs :
        /\ reqs[p].op = "register" /\ reqs[p].pc = "save"
        /\ reqs'[p] # reqs[p]
        /\ users[reqs[p].email].exists
        => users' = users

Theorem_C13 ==
    [][C13_Terminal /\ C13_Resend /\ C13_Register /\ C13_Insert]_vars

\* a resend-otp request whose lookup preceded the verification has saved its
\* code after it, the identity is still verified, and a later resend-otp
\* request was refused
Witness_C13 ==
    \E e \in Emails, p \in Procs :
        /\ users[e].exists /\ Truthy(users[e].isVerified)
        /\ Truthy(users[e].otp)
        /\ reqs[p].op = "resend" /\ reqs[p].email = e
        /\ reqs[p].resp = Resp(400, "Email is already verified")

----------------------------------------------------------------------------
(* C14: a payment-intent request for a stored hotel that is answered 200    *)
(* returns totalCost = pricePerNight * numberOfNights and has minted an     *)
(* intent of amount totalCost * 100 whose metadata is the hotel id and the  *)
(* caller's id; no step of a payment-intent request changes a hotel or a    *)
(* user.                                                                    *)

C14_Minted ==
    \A p \in Procs :
        Answers(p, "intent", "create") /\ reqs'[p].resp.status = 200 =>
            LET r == reqs'[p]
                total == hotels[r.hotelId].pricePerNight * r.nights
            IN /\ r.totalCost = total
               /\ r.paymentIntentId = Len(intents')
               /\ intents' = Append(intents,
                     [amount |-> total * 100, currency |-> "gbp",
                      metadata |-> [hotelId |-> r.hotelId,
                                    userId |-> r.userId],
                      status |-> "requires_payment_method"])

C14_Frame ==
    \A p \in Procs :
        reqs'[p] # reqs[p] /\ reqs'[p].op = "intent" =>
            users' = users /\ hotels' = hotels

Theorem_C14 == [][C14_Minted /\ C14_Frame]_vars

\* nightly rate 100 and 3 nights: total 300, amount 30000
Witness_C14 ==
    \E p \in Procs :
        LET r == reqs[p]
        IN /\ r.op = "intent" /\ r.pc = "done" /\ r.resp.status = 200
           /\ hotels[r.hotelId].pricePerNight = 100 /\ r.nights = 3
           /\ r.totalCost = 300
           /\ intents[r.paymentIntentId].amount = 30000
           /\ intents[r.paymentIntentId].metadata.userId = r.userId

----------------------------------------------------------------------------
(* C15: no payment-intent request is left without a response: a request    *)
(* whose stripe.paymentIntents.create call is rejected is answered with an  *)
(* error.  (Position "hung" is the handler after the rejection was thrown   *)
(* out of it: no later step answers the request.)                           *)

Claim_C15 ==
    \A p \in Procs : reqs[p].op = "intent" => reqs[p].pc # "hung"

----------------------------------------------------------------------------
(* C16: a bookings request that names a payment intent the provider does    *)
(* not know is answered with a failure other than the generic one of the    *)
(* handler's catch, and appends no record.                                  *)

\* the answer of the handler's catch
InternalFailure == Resp(500, "something went wrong")

Claim_C16 ==
    [][\A p \in Procs :
          /\ StartsReq(p, "confirm")
          /\ reqs'[p].resp.status # 401
          /\ reqs'[p].body.paymentIntentId \notin DOMAIN intents
          => /\ reqs'[p].pc = "done"
             /\ reqs'[p].resp.status >= 400
             /\ reqs'[p].resp # InternalFailure
             /\ hotels' = hotels]_vars

----------------------------------------------------------------------------
(* C17: verifyToken answers 401 "Authentication required" exactly when the  *)
(* cookie is empty and the Authorization header has no credential after its *)
(* scheme; when both carry one, the cookie alone decides: the request runs  *)
(* as the user the cookie was signed for, or is answered 401 "Malformed     *)
(* token" when the cookie is no signed token, whatever the header holds;    *)
(* the step changes no user, token, hotel or intent.                        *)

CookieCarries(cred) == cred.cookie # NoToken
HeaderCarries(cred) == Len(cred.header) >= 2
\* the token was signed by register for a user
Signed(token) == \E u \in tokens : token = JwtOf(u)

C17_Step ==
    \A p \in Procs :
        StartsReq(p, "intent") =>
            LET r == reqs'[p]
                c == r.cred
            IN /\ r.resp = Resp(401, "Authentication required")
                     <=> ~CookieCarries(c) /\ ~HeaderCarries(c)
               /\ CookieCarries(c) /\ HeaderCarries(c) =>
                     IF Signed(c.cookie)
                     THEN r.resp.status # 401 /\ JwtOf(r.userId) = c.cookie
                     ELSE r.resp = Resp(401, "Malformed token")
               /\ r.resp.status = 401 => r.pc = "done"
               /\ users' = users /\ tokens' = tokens
               /\ hotels' = hotels /\ intents' = intents

Theorem_C17 == [][C17_Step]_vars

\* a request with a cookie that is no token was refused although its header
\* carried the token of a registered user
Witness_C17 ==
    \E p \in Procs :
        LET r == reqs[p]
        IN /\ r.op = "intent" /\ r.pc = "done"
           /\ r.cred.cookie = Garbage
           /\ HeaderCarries(r.cred) /\ Signed(r.cred.header[2])
           /\ r.resp = Resp(401, "Malformed token")

----------------------------------------------------------------------------
(* C18: the codes that register and resend-otp can draw are exactly the     *)
(* integers 100000..999999: every stored code is the decimal string of one  *)
(* of them, and each of them, 999999 included, is a possible draw.          *)

SixDigits == 100000..999999

\* the stored value is the decimal string of an integer of SixDigits
SixDigitString(value) ==
    /\ value.t = "string"
    /\ Len(value.v) = 6
    /\ value.v[1] \in 1..9
    /\ \A k \in 2..6 : value.v[k] \in 0..9

Claim_C18 ==
    /\ \A e \in Emails :
          users[e].exists /\ Present(users[e].otp) =>
              SixDigitString(users[e].otp)
    /\ \A p \in Procs :
          reqs[p].op \in {"register", "resend"} /\ reqs[p].pc = "save" =>
              SixDigitString(reqs[p].code)
    /\ \A n \in OtpCodes : n \in SixDigits => n \in GeneratedOtps

----------------------------------------------------------------------------
(* C19: in every step the bookings of a hotel stay a prefix of the new      *)
(* bookings; they change only in the update of a bookings request, which    *)
(* appends exactly that request's record, however many requests are in      *)
(* flight; the hotel.save() that follows changes nothing.  So k requests    *)
(* that reach their update make the collection grow by k.                   *)

IsPrefix(s, t) == Len(s) <= Len(t) /\ SubSeq(t, 1, Len(s)) = s

C19_Prefix ==
    \A h \in HotelIds : IsPrefix(hotels[h].bookings, hotels'[h].bookings)

C19_Update ==
    \A p \in Procs :
        /\ reqs[p].op = "confirm" /\ reqs[p].pc = "update"
        /\ reqs'[p].pc = "save"
        => hotels' = [hotels EXCEPT ![reqs[p].hotelId].bookings =
                         Append(@, reqs[p].booking)]

C19_Only ==
    (\E h \in HotelIds : hotels'[h].bookings # hotels[h].bookings) =>
        \E p \in Procs :
            /\ reqs[p].op = "confirm" /\ reqs[p].pc = "update"
            /\ reqs'[p].pc = "save"

\* the step in which the hotel.save() of slot p settles
C19_Save ==
    \A p \in Procs :
        /\ reqs[p].op = "confirm" /\ reqs[p].pc = "save"
        /\ reqs'[p] # reqs[p]
        => hotels' = hotels

Theorem_C19 == [][C19_Prefix /\ C19_Update /\ C19_Only /\ C19_Save]_vars

\* two overlapping requests: q appended first and awaits its hotel.save()
\* with the document from before both appends, p appended after it and has
\* saved the document it was returned; both records are stored
Witness_C19 ==
    \E p \in Procs, q \in Procs :
        /\ p # q
        /\ reqs[p].op = "confirm" /\ reqs[p].pc = "done"
        /\ reqs[p].appended = 1
        /\ reqs[q].op = "confirm" /\ reqs[q].pc = "save"
        /\ reqs[q].hotelId = reqs[p].hotelId
        /\ reqs[q].doc.bookings = <<>>
        /\ Len(hotels[reqs[p].hotelId].bookings) = 2

----------------------------------------------------------------------------
(* C20: a bookings request hands the confirmation email to the transport    *)
(* only once its record is stored; a request that ends without an append    *)
(* ends with a failure and has handed over no email; an update that finds   *)
(* no hotel with the id answers 400 "hotel not found" and writes nothing.   *)

\* the step in which the sendEmail of slot p settles: the request was past
\* its update and its hotel.save()
C20_Order ==
    \A p \in Procs :
        /\ reqs'[p] # reqs[p]
        /\ reqs'[p].op = "confirm" /\ reqs'[p].mail # "none"
        => /\ reqs[p].op = "confirm" /\ reqs[p].pc = "email"
           /\ reqs[p].appended = 1
           /\ reqs[p].booking \in Records(reqs[p].hotelId)

C20_HotelGone ==
    \A p \in Procs :
        /\ reqs[p].op = "confirm" /\ reqs[p].pc = "update"
        /\ reqs'[p] # reqs[p]
        /\ ~hotels[reqs[p].hotelId].exists
        => /\ reqs'[p].pc = "done"
           /\ reqs'[p].resp = Resp(400, "hotel not found")
           /\ reqs'[p].mail = "none"
           /\ hotels' = hotels

C20_Failing ==
    \A p \in Procs :
        reqs[p].op = "confirm" /\ reqs[p].pc = "done"
           /\ reqs[p].appended = 0
        => reqs[p].mail = "none" /\ reqs[p].resp.status >= 400

Theorem_C20 == [][C20_Order /\ C20_HotelGone]_vars /\ []C20_Failing

\* a paid, matching authorization was refused because the hotel had been
\* removed before the update
Witness_C20 ==
    \E p \in Procs :
        LET r == reqs[p]
        IN /\ r.op = "confirm" /\ r.pc = "done"
           /\ r.resp = Resp(400, "hotel not found")
           /\ r.mail = "none" /\ r.appended = 0
           /\ IntentOf(r).status = "succeeded"
           /\ ContextMatches(r)
           /\ hotels[r.hotelId].bookings = <<>>

----------------------------------------------------------------------------
(* C21: a verify-email request that is refused changes no stored identity;  *)
(* the refusals come in the order "User not found", "Email already          *)
(* verified", "OTP not generated for this user", "Invalid OTP", "OTP        *)
(* expired": a wrong code against an expired challenge is answered "Invalid *)
(* OTP"; the challenge of an unverified identity changes only in the save   *)
(* of a resend-otp or verify-email request, so an expired one stays stored. *)

\* the request of slot q was refused with the message
Refused(q, message) ==
    reqs'[q].pc = "done" /\ reqs'[q].resp = Resp(400, message)

C21_Frame ==
    \A q \in Procs :
        StartsReq(q, "verify") /\ reqs'[q].pc = "done" => users' = users

C21_Order ==
    \A q \in Procs :
        StartsReq(q, "verify") =>
            LET r == reqs'[q]
                u == users[r.email]
                stored == u.exists /\ ~Truthy(u.isVerified)
                             /\ Truthy(u.otp) /\ Truthy(u.otpExpiry)
            IN /\ ~u.exists => Refused(q, "User not found")
               /\ u.exists /\ Truthy(u.isVerified) =>
                     Refused(q, "Email already verified")
               /\ u.exists /\ ~Truthy(u.isVerified)
                     /\ (~Truthy(u.otp) \/ ~Truthy(u.otpExpiry)) =>
                     Refused(q, "OTP not generated for this user")
               /\ stored /\ ~StrictEq(u.otp, r.otp) =>
                     Refused(q, "Invalid OTP")
               /\ stored /\ StrictEq(u.otp, r.otp)
                     /\ now > u.otpExpiry.v[1] =>
                     Refused(q, "OTP expired")

C21_Stale ==
    \A e \in Emails :
        /\ users[e].exists /\ ~Truthy(users[e].isVerified)
        /\ users'[e] # users[e]
        => \E p \in Procs :
              /\ reqs[p].op \in {"resend", "verify"}
              /\ reqs[p].pc = "save" /\ reqs[p].email = e
              /\ reqs'[p].pc # "save"

Theorem_C21 == [][C21_Frame /\ C21_Order /\ C21_Stale]_vars

\* a wrong code was refused as invalid after the challenge had expired, and
\* the expired challenge is still stored
Witness_C21 ==
    \E q \in Procs :
        LET r == reqs[q]
            u == users[r.email]
        IN /\ r.op = "verify" /\ r.pc = "done"
           /\ r.resp = Resp(400, "Invalid OTP")
           /\ u.exists /\ ~Truthy(u.isVerified)
           /\ Truthy(u.otp) /\ ~StrictEq(u.otp, r.otp)
           /\ u.otpExpiry.t = "date" /\ now > u.otpExpiry.v[1]

====
